---- MODULE Spec2Model ----
(***************************************************************************)
(* Model of the Dialogflow connector (index.js): capability validation,    *)
(* the session lifecycle (Start / UserSays / Stop), the context merge, the *)
(* normalisation of a detectIntent response into bot messages, and the     *)
(* flattening of the parameter tree into entities.                         *)
(*                                                                         *)
(* JavaScript values are modelled as follows.  A capability or property    *)
(* that is missing is the string "undefined"; a number is its decimal      *)
(* string; NaN is the string "NaN".  An object reference that may be       *)
(* undefined or null carries a field saying which.                         *)
(***************************************************************************)
EXTENDS Integers, Sequences, FiniteSets, TLC

\* ---------------------------------------------------------------- bounds
MaxNodes == 3            \* nodes of a parameter tree
MaxTurns == 1            \* UserSays calls in a run of the session lifecycle
MaxStarts == 2           \* Start calls in a run of the session lifecycle
MaxContextTurns == 3     \* UserSays calls in a run of the context merge
MaxContextStarts == 1    \* Start calls in a run of the context merge
MaxResponseTurns == 1    \* UserSays calls in a run of the response handling
MaxFulfillment == 2      \* fulfillment messages in one response

VARIABLES
  caps,            \* this.caps
  validateResult,  \* outcome of the last Validate call
  entityInput,     \* response.queryResult.parameters handed to _extractEntities
  entityResult,    \* what _extractEntities returned
  sessionClient,   \* this.sessionClient: "undefined", "null", "v2" or "v2beta1"
  sessionPath,     \* this.sessionPath: the conversation id in it, 0 when unset
  conversationId,  \* this.conversationId: 0 before the first Start
  queryParams,     \* this.queryParams
  kbNames,         \* this.kbNames
  startsPending,   \* Start calls waiting for listKnowledgeBases
  turns,           \* one record per UserSays call: request, promise, response
  timers,          \* callbacks armed with setTimeout(.., 0), oldest first
  delivered,       \* the queueBotSays calls made so far, oldest first
  hist,            \* what the host has called so far (history of the run)
  bound            \* how many UserSays and Start calls the run may make

validateVars == <<validateResult>>
entityVars == <<entityInput, entityResult>>
sessionVars == <<sessionClient, sessionPath, conversationId, queryParams, kbNames, startsPending>>
turnVars == <<turns, timers, delivered, hist, bound>>
vars == <<caps, validateResult, entityInput, entityResult, sessionClient, sessionPath,
          conversationId, queryParams, kbNames, startsPending, turns, timers, delivered, hist,
          bound>>

\* ------------------------------------------------------- JavaScript values
Undefined == "undefined"

\* !v for the string-or-missing values a capability takes
Falsy(v) == v \in {Undefined, ""}

SeqsUpTo(S, n) == UNION {[1..k -> S] : k \in 0..n}

Last(s) == s[Len(s)]

\* --------------------------------------------------------------- Validate
\* DIALOGFLOW_ENABLE_KNOWLEDGEBASE as the user gives it: absent, a boolean, a
\* string, an array of knowledge base names or a number.
KbCap(t, b, s, a, n) == [t |-> t, b |-> b, s |-> s, a |-> a, n |-> n]
KbAbsent == KbCap("absent", FALSE, "", <<>>, 0)
KbBool(b) == KbCap("bool", b, "", <<>>, 0)
KbStr(s) == KbCap("str", FALSE, s, <<>>, 0)
KbArr(a) == KbCap("arr", FALSE, "", a, 0)
KbNum(n) == KbCap("num", FALSE, "", <<>>, n)

\* Object.assign({}, Defaults, this.caps): the defaults the model reads
Defaults(c) == [c EXCEPT !.kb = IF c.kb.t = "absent" THEN KbBool(FALSE) ELSE c.kb]

KbFalsy(kb) ==
  \/ kb.t = "bool" /\ ~kb.b
  \/ kb.t = "str" /\ kb.s = ""
  \/ kb.t = "num" /\ kb.n = 0

\* _.isBoolean(kb && !_.isString(kb)): a falsy kb is the value of the
\* conjunction itself, a truthy one yields the boolean !_.isString(kb)
IsBooleanOfAnd(kb) == IF KbFalsy(kb) THEN kb.t = "bool" ELSE TRUE

KbRejected(kb) == kb.t # "arr" /\ ~IsBooleanOfAnd(kb)

\* the string form becomes the boolean (kb === 'true')
KbNormalized(kb) == IF kb.t = "str" THEN KbBool(kb.s = "true") ELSE kb

\* the first context suffix whose name or lifespan is missing, 0 if none
FirstBadContext(cs) ==
  LET bad == {i \in 1..Len(cs) : Falsy(cs[i].name) \/ Falsy(cs[i].lifespan)}
  IN  IF bad = {} THEN 0 ELSE CHOOSE i \in bad : \A j \in bad : i <= j

Thrown(msg) == [called |-> TRUE, threw |-> TRUE, error |-> msg, resolved |-> FALSE]
Resolved == [called |-> TRUE, threw |-> FALSE, error |-> "", resolved |-> TRUE]
NotCalled == [called |-> FALSE, threw |-> FALSE, error |-> "", resolved |-> FALSE]

\* the order in which Validate tests the three required capabilities
RequiredOrderMutant == <<"DIALOGFLOW_CLIENT_EMAIL", "DIALOGFLOW_PROJECT_ID", "DIALOGFLOW_PRIVATE_KEY">>
RequiredOrder == <<"DIALOGFLOW_PROJECT_ID", "DIALOGFLOW_CLIENT_EMAIL", "DIALOGFLOW_PRIVATE_KEY">>

CapOf(c, k) ==
  CASE k = "DIALOGFLOW_PROJECT_ID" -> c.projectId
    [] k = "DIALOGFLOW_CLIENT_EMAIL" -> c.clientEmail
    [] k = "DIALOGFLOW_PRIVATE_KEY" -> c.privateKey

\* Validate(): the capabilities it leaves and what the call did
ValidateOutcome(c0) ==
  LET c == Defaults(c0)
      missing == {i \in 1..3 : Falsy(CapOf(c, RequiredOrder[i]))}
      bad == FirstBadContext(c.inputContexts)
  IN  IF missing # {}
      THEN [caps |-> c,
            result |-> Thrown(RequiredOrder[CHOOSE i \in missing : \A j \in missing : i <= j]
                              \o " capability required")]
      ELSE IF KbRejected(c.kb)
      THEN [caps |-> c,
            result |-> Thrown("DIALOGFLOW_ENABLE_KNOWLEDGEBASE capability has to be an array of knowledge base identifiers, or a boolean")]
      ELSE LET c2 == [c EXCEPT !.kb = KbNormalized(c.kb)]
           IN  IF bad # 0
               THEN [caps |-> c2,
                     result |-> Thrown("DIALOGFLOW_INPUT_CONTEXT_NAME" \o c2.inputContexts[bad].suffix
                                       \o " and DIALOGFLOW_INPUT_CONTEXT_LIFESPAN"
                                       \o c2.inputContexts[bad].suffix \o " capability required")]
               ELSE [caps |-> c2, result |-> Resolved]

Validate ==
  /\ ~validateResult.called
  /\ caps' = ValidateOutcome(caps).caps
  /\ validateResult' = ValidateOutcome(caps).result
  /\ UNCHANGED <<entityVars, sessionVars, turnVars>>

\* the capability sets Validate is tried on
CapStrings == {Undefined, "", "set"}
KbCaps == {KbAbsent, KbBool(FALSE), KbBool(TRUE), KbStr("true"), KbStr(""),
           KbArr(<<>>), KbArr(<<"kb1">>), KbNum(0)}
ContextCap(suffix, name, lifespan) == [suffix |-> suffix, name |-> name, lifespan |-> lifespan]
ContextCapLists ==
  {<<>>} \cup {<<ContextCap("", n, l)>> : n \in {"", "a"}, l \in {Undefined, "5"}}
         \cup {<<ContextCap("", "a", "5"), ContextCap("_1", "b", l)>> : l \in {Undefined, "3"}}

ValidateCaps ==
  [projectId : CapStrings, clientEmail : CapStrings, privateKey : CapStrings,
   kb : KbCaps, inputContexts : ContextCapLists,
   outputPlatform : {Undefined}, forceIntentResolution : {TRUE}]

\* the connector as the constructor leaves it
NoParameters == [hasFields |-> FALSE, fields |-> <<>>]
NoQueryParams ==
  [state |-> Undefined, hasContexts |-> FALSE, contexts |-> <<>>,
   hasKb |-> FALSE, knowledgeBaseNames |-> <<>>]
NoKbNames == [defined |-> FALSE, names |-> <<>>]
NoHistory ==
  [starts |-> 0, startCompleted |-> FALSE, stopped |-> FALSE, stopDuringStart |-> FALSE,
   successSinceStart |-> FALSE, seeded |-> FALSE, sinceReset |-> <<>>,
   overlapped |-> FALSE, live |-> FALSE]
Bound(maxTurns, maxStarts) == [turns |-> maxTurns, starts |-> maxStarts]

Constructed ==
  /\ validateResult = NotCalled
  /\ entityInput = NoParameters
  /\ entityResult = <<>>
  /\ sessionClient = Undefined
  /\ sessionPath = 0
  /\ conversationId = 0
  /\ queryParams = NoQueryParams
  /\ kbNames = NoKbNames
  /\ startsPending = 0
  /\ turns = <<>>
  /\ timers = <<>>
  /\ delivered = <<>>
  /\ hist = NoHistory

InitValidate ==
  /\ caps \in ValidateCaps
  /\ Constructed
  /\ bound = Bound(0, 0)

NextValidate == Validate

SpecValidate == InitValidate /\ [][NextValidate]_vars

\* C1: whenever DIALOGFLOW_PROJECT_ID, DIALOGFLOW_CLIENT_EMAIL or
\* DIALOGFLOW_PRIVATE_KEY is missing or empty, Validate throws synchronously
\* (no promise is returned) with the error naming the first missing one in
\* that order; it resolves only when all three are present.
C1_ValidateRejectsIncomplete ==
  validateResult.called =>
    /\ Falsy(caps.projectId) =>
         /\ validateResult.threw /\ ~validateResult.resolved
         /\ validateResult.error = "DIALOGFLOW_PROJECT_ID capability required"
    /\ (~Falsy(caps.projectId) /\ Falsy(caps.clientEmail)) =>
         /\ validateResult.threw /\ ~validateResult.resolved
         /\ validateResult.error = "DIALOGFLOW_CLIENT_EMAIL capability required"
    /\ (~Falsy(caps.projectId) /\ ~Falsy(caps.clientEmail) /\ Falsy(caps.privateKey)) =>
         /\ validateResult.threw /\ ~validateResult.resolved
         /\ validateResult.error = "DIALOGFLOW_PRIVATE_KEY capability required"
    /\ validateResult.resolved =>
         ~Falsy(caps.projectId) /\ ~Falsy(caps.clientEmail) /\ ~Falsy(caps.privateKey)

\* Validate ran on capabilities that lack the client email and the private key
C1_Witness ==
  /\ validateResult.called
  /\ ~Falsy(caps.projectId) /\ Falsy(caps.clientEmail) /\ Falsy(caps.privateKey)
  /\ validateResult.threw

\* ------------------------------------------------------- _extractEntities
\* A google.protobuf.Value: kind names the member that is set.  A scalar holds
\* the JavaScript value field[field.kind] as its type t and its string form s;
\* a struct holds its fields in Object.keys order, a list its values.
Value(kind, t, s, kids) == [kind |-> kind, t |-> t, s |-> s, kids |-> kids]
Member(key, f) == [key |-> key, f |-> f]

ScalarKinds == {"numberValue", "stringValue", "boolValue", "nullValue"}

\* the leaves tried: numbers, strings, booleans, a null leaf whose member is
\* missing, a null leaf holding the NullValue enum, and a kind the walker
\* does not know
Leaves ==
  {Value("numberValue", "num", "0", <<>>), Value("numberValue", "num", "7", <<>>),
   Value("stringValue", "str", "", <<>>), Value("stringValue", "str", "x", <<>>),
   Value("boolValue", "bool", "false", <<>>), Value("boolValue", "bool", "true", <<>>),
   Value("nullValue", "nil", "null", <<>>), Value("nullValue", "str", "NULL_VALUE", <<>>),
   Value(Undefined, "nil", Undefined, <<>>)}

KeyNames == <<"a", "b", "c", "d", "e", "f">>

\* key i of a struct; for a list member the key is not read
Keyed(fs) == [i \in 1..Len(fs) |-> Member(KeyNames[i], fs[i])]

RECURSIVE TreesOfSize(_), ForestsOfSize(_)
\* the values with exactly n nodes
TreesOfSize(n) ==
  IF n = 1
  THEN Leaves \cup {Value("structValue", "nil", "", <<>>), Value("listValue", "nil", "", <<>>)}
  ELSE {Value(k, "nil", "", Keyed(fs)) : k \in {"structValue", "listValue"},
                                         fs \in ForestsOfSize(n - 1) \ {<<>>}}
\* the sequences of values with n nodes in all
ForestsOfSize(n) ==
  IF n = 0 THEN {<<>>}
  ELSE UNION {{<<t>> \o rest : t \in TreesOfSize(k), rest \in ForestsOfSize(n - k)} : k \in 1..n}

\* the parameters with at most maxNodes values in all
ParameterTrees(maxNodes) ==
  {NoParameters} \cup
  {[hasFields |-> TRUE, fields |-> Keyed(fs)] : fs \in UNION {ForestsOfSize(n) : n \in 0..maxNodes}}

RECURSIVE ExtractEntityValues(_, _), ConcatEntities(_, _, _, _)

\* the reduce of _extractEntitiesFromFields (byIndex = FALSE) and of the
\* listValue branch (byIndex = TRUE) from member i on
ConcatEntities(prefix, members, i, byIndex) ==
  IF i > Len(members) THEN <<>>
  ELSE LET key == IF byIndex
                  THEN prefix \o "." \o ToString(i - 1)
                  ELSE (IF prefix # "" THEN prefix \o "." ELSE "") \o members[i].key
       IN  ExtractEntityValues(key, members[i].f) \o ConcatEntities(prefix, members, i + 1, byIndex)

\* the scalar branch of _extractEntityValues
ScalarEntity(key, field) ==
  IF field.t # "nil" /\ (field.t # "str" \/ Len(field.s) > 0)
  THEN <<[name |-> key, value |-> field.s]>>
  ELSE <<>>

ExtractEntityValues(key, field) ==
  IF field.kind \in ScalarKinds THEN ScalarEntity(key, field)
  ELSE IF field.kind = "structValue" THEN ConcatEntities(key, field.kids, 1, FALSE)
  ELSE IF field.kind = "listValue"
       THEN IF Len(field.kids) > 0 THEN ConcatEntities(key, field.kids, 1, TRUE) ELSE <<>>
  ELSE <<>>

ExtractEntitiesFromFields(keyPrefix, fields) == ConcatEntities(keyPrefix, fields, 1, FALSE)

ExtractEntities(parameters) ==
  IF parameters.hasFields THEN ExtractEntitiesFromFields("", parameters.fields) ELSE <<>>

NotExtracted == <<[name |-> "", value |-> "not called"]>>

CallExtractEntities ==
  /\ entityResult = NotExtracted
  /\ entityResult' = ExtractEntities(entityInput)
  /\ UNCHANGED <<caps, validateVars, entityInput, sessionVars, turnVars>>

DefaultCaps ==
  [projectId |-> "set", clientEmail |-> "set", privateKey |-> "set", kb |-> KbBool(FALSE),
   inputContexts |-> <<>>, outputPlatform |-> Undefined, forceIntentResolution |-> TRUE]

InitEntities ==
  /\ caps = DefaultCaps
  /\ validateResult = NotCalled
  /\ entityInput \in ParameterTrees(MaxNodes)
  /\ entityResult = NotExtracted
  /\ sessionClient = Undefined
  /\ sessionPath = 0
  /\ conversationId = 0
  /\ queryParams = NoQueryParams
  /\ kbNames = NoKbNames
  /\ startsPending = 0
  /\ turns = <<>>
  /\ timers = <<>>
  /\ delivered = <<>>
  /\ hist = NoHistory
  /\ bound = Bound(0, 0)

NextEntities == CallExtractEntities

SpecEntities == InitEntities /\ [][NextEntities]_vars

\* The entities the flattening is said to give: one per non-empty scalar
\* leaf, in depth-first order, named by the dot-joined path.
RECURSIVE JoinPath(_)
JoinPath(path) ==
  IF Len(path) = 0 THEN ""
  ELSE IF Len(path) = 1 THEN path[1]
  ELSE path[1] \o "." \o JoinPath(Tail(path))

\* a leaf that contributes: a number, a boolean or a non-empty string
ContributingLeaf(f) ==
  \/ f.kind \in {"numberValue", "boolValue"} /\ f.t # "nil"
  \/ f.kind = "stringValue" /\ f.t = "str" /\ f.s # ""

RECURSIVE LeafEntities(_, _), MemberEntities(_, _, _, _)
LeafEntities(path, f) ==
  IF f.kind \in {"structValue", "listValue"}
  THEN MemberEntities(path, f.kids, 1, f.kind = "listValue")
  ELSE IF ContributingLeaf(f) THEN <<[name |-> JoinPath(path), value |-> f.s]>> ELSE <<>>
MemberEntities(path, members, i, isList) ==
  IF i > Len(members) THEN <<>>
  ELSE LeafEntities(Append(path, IF isList THEN ToString(i - 1) ELSE members[i].key), members[i].f)
       \o MemberEntities(path, members, i + 1, isList)

FlattenedAsSpecified(parameters) ==
  IF parameters.hasFields THEN MemberEntities(<<>>, parameters.fields, 1, FALSE) ELSE <<>>

\* C7: _extractEntities returns one entity per non-empty scalar leaf, named
\* by the dot-joined path of struct keys and list indices in depth-first order
\* with the value as a string; a nullValue leaf, an empty string, an empty
\* list and an unsupported kind give no entity, 0 and false give one.
C7_FlatteningSkipsNullLeaves ==
  entityResult # NotExtracted => entityResult = FlattenedAsSpecified(entityInput)

\* ------------------------------------------------------------- contexts
\* parseInt of a lifespan: a decimal string or number gives the number,
\* anything else NaN
ParseInt(v) == IF v \in {"1", "2", "3", "5"} THEN v ELSE "NaN"

\* contextClient.contextPath(project, conversationId, contextName); the
\* project is the same in every path of one connector
ContextPath(conv, contextName) == [conv |-> conv, ctx |-> contextName]

Context(name, lifespanCount, hasParameters) ==
  [name |-> name, lifespanCount |-> lifespanCount, hasParameters |-> hasParameters]

\* _createInitialContext(contextSuffix) for entry i of the sorted suffixes
CreateInitialContext(c, conv, i) ==
  Context(ContextPath(conv, c.inputContexts[i].name),
          ParseInt(c.inputContexts[i].lifespan), FALSE)

InitialContexts(c, conv) ==
  [i \in 1..Len(c.inputContexts) |-> CreateInitialContext(c, conv, i)]

\* _createCustomContext(contextName, contextLifespan, contextParameters)
CreateCustomContext(conv, contextName, contextLifespan, hasParameters) ==
  Context(ContextPath(conv, contextName), ParseInt(contextLifespan), hasParameters)

\* _extractCustomContexts(msg): one context per key of SET_DIALOGFLOW_CONTEXT,
\* in _.keys order; a plain value is the lifespan, an object carries
\* lifespan and parameters
ExtractCustomContexts(msg, conv) ==
  [i \in 1..Len(msg.contexts) |->
     IF msg.contexts[i].isObject
     THEN CreateCustomContext(conv, msg.contexts[i].key, msg.contexts[i].lifespan,
                              msg.contexts[i].hasParameters)
     ELSE CreateCustomContext(conv, msg.contexts[i].key, msg.contexts[i].lifespan, FALSE)]

\* this.queryParams.contexts.findIndex(c => c.name === name): 0 when absent
FindIndex(contexts, name) ==
  LET hits == {i \in 1..Len(contexts) : contexts[i].name = name}
  IN  IF hits = {} THEN 0 ELSE CHOOSE i \in hits : \A j \in hits : i <= j

\* one step of customContexts.forEach: replace at the index found, else push
MergeOneMutant(contexts, customContext) == Append(contexts, customContext)
MergeOne(contexts, customContext) ==
  LET index == FindIndex(contexts, customContext.name)
  IN  IF index > 0
      THEN [contexts EXCEPT ![index] = customContext]
      ELSE Append(contexts, customContext)

RECURSIVE MergeContexts(_, _)
MergeContexts(contexts, customContexts) ==
  IF customContexts = <<>> THEN contexts
  ELSE MergeContexts(MergeOne(contexts, Head(customContexts)), Tail(customContexts))

\* ------------------------------------------------------------ Start, Stop
QueryParams(hasContexts, contexts, hasKb, kb) ==
  [state |-> "object", hasContexts |-> hasContexts, contexts |-> contexts,
   hasKb |-> hasKb, knowledgeBaseNames |-> kb]
EmptyObject == QueryParams(FALSE, <<>>, FALSE, <<>>)
NullQueryParams == [NoQueryParams EXCEPT !.state = "null"]

\* the last assignment of Start: the query parameters it leaves
SeededQueryParams(qp, c, conv) == QueryParams(TRUE, InitialContexts(c, conv), FALSE, <<>>)

\* Start from the test of this.kbNames on: kb is this.kbNames, qp
\* this.queryParams, conv this.conversationId, path this.sessionPath.
\* Writing knowledgeBaseNames into a null this.queryParams (Stop ran while
\* the listing was awaited) throws after the session client was assigned.
StartFinish(kb, qp, conv, path) ==
  IF kb.defined /\ Len(kb.names) > 0
  THEN IF qp.state = "null"
       THEN [sessionClient |-> "v2beta1", sessionPath |-> path, queryParams |-> qp,
             completed |-> FALSE]
       ELSE [sessionClient |-> "v2beta1", sessionPath |-> conv,
             queryParams |-> SeededQueryParams([qp EXCEPT !.state = "object", !.hasKb = TRUE,
                                                          !.knowledgeBaseNames = kb.names],
                                               caps, conv),
             completed |-> TRUE]
  ELSE [sessionClient |-> "v2", sessionPath |-> conv,
        queryParams |-> SeededQueryParams(qp, caps, conv), completed |-> TRUE]

\* the history after a Start call got to its end (completed) or threw
Started(h, completed) ==
  IF completed
  THEN [h EXCEPT !.startCompleted = TRUE, !.live = TRUE, !.seeded = TRUE,
                 !.sinceReset = <<>>, !.successSinceStart = FALSE]
  ELSE h

\* Start(): a new conversation id and empty query parameters; with the
\* knowledge base capability true the call then waits for the listing
Start ==
  /\ hist.starts < bound.starts
  /\ conversationId' = hist.starts + 1
  /\ IF caps.kb.t = "bool" /\ caps.kb.b
     THEN /\ startsPending' = startsPending + 1
          /\ queryParams' = EmptyObject
          /\ hist' = [hist EXCEPT !.starts = @ + 1, !.stopped = FALSE, !.seeded = FALSE,
                                  !.live = FALSE,
                                  !.sinceReset = <<>>, !.successSinceStart = FALSE]
          /\ UNCHANGED <<sessionClient, sessionPath, kbNames>>
     ELSE LET kb == IF caps.kb.t = "arr" THEN [defined |-> TRUE, names |-> caps.kb.a] ELSE kbNames
              fin == StartFinish(kb, EmptyObject, hist.starts + 1, sessionPath)
          IN  /\ kbNames' = kb
              /\ sessionClient' = fin.sessionClient
              /\ sessionPath' = fin.sessionPath
              /\ queryParams' = fin.queryParams
              /\ hist' = Started([hist EXCEPT !.starts = @ + 1, !.stopped = FALSE], fin.completed)
              /\ UNCHANGED startsPending
  /\ UNCHANGED <<caps, validateVars, entityVars, turns, timers, delivered, bound>>

\* what listKnowledgeBases can resolve with: no base, one base
Listings == {[defined |-> TRUE, names |-> <<>>], [defined |-> TRUE, names |-> <<"kb1">>]}

\* a waiting Start resumes with the listing
StartResumes ==
  /\ startsPending > 0
  /\ \E kb \in Listings :
       LET fin == StartFinish(kb, queryParams, conversationId, sessionPath)
       IN  /\ kbNames' = kb
           /\ sessionClient' = fin.sessionClient
           /\ sessionPath' = fin.sessionPath
           /\ queryParams' = fin.queryParams
           /\ hist' = Started(hist, fin.completed)
  /\ startsPending' = startsPending - 1
  /\ UNCHANGED <<caps, validateVars, entityVars, conversationId, turns, timers, delivered, bound>>

\* listKnowledgeBases rejects: the waiting Start rejects and assigns nothing
StartListingFails ==
  /\ startsPending > 0
  /\ startsPending' = startsPending - 1
  /\ UNCHANGED <<caps, validateVars, entityVars, sessionClient, sessionPath, conversationId,
                 queryParams, kbNames, turns, timers, delivered, hist, bound>>

\* Stop(): the session client, the session path and the query parameters
\* become null
StopSessionClient == "null"

Stop ==
  /\ sessionClient' = StopSessionClient
  /\ sessionPath' = 0
  /\ queryParams' = NullQueryParams
  /\ hist' = [hist EXCEPT !.stopped = TRUE, !.live = FALSE, !.seeded = FALSE, !.sinceReset = <<>>,
                          !.successSinceStart = FALSE,
                          !.stopDuringStart = @ \/ startsPending > 0]
  /\ UNCHANGED <<caps, validateVars, entityVars, conversationId, kbNames, startsPending,
                 turns, timers, delivered, bound>>

\* ---------------------------------------------------------------- UserSays
\* A message: SET_DIALOGFLOW_CONTEXT as its entries in _.keys order, and
\* SET_DIALOGFLOW_QUERYPARAMS, which when set here names knowledge bases.
\* The queryInput (text or button event) is not modelled: nothing below
\* reads it.
ContextEntry(key, isObject, lifespan, hasParameters) ==
  [key |-> key, isObject |-> isObject, lifespan |-> lifespan, hasParameters |-> hasParameters]
Message(contexts, setsQueryParams, kb) ==
  [contexts |-> contexts, setsQueryParams |-> setsQueryParams, knowledgeBaseNames |-> kb]

NoRequest ==
  [sent |-> FALSE, session |-> 0, hasContexts |-> FALSE, contexts |-> <<>>,
   hasKb |-> FALSE, knowledgeBaseNames |-> <<>>]

\* request.queryParams = Object.assign({}, this.queryParams, mergeQueryParams)
Request(qp, msg, session) ==
  LET own == IF qp.state = "object" THEN qp ELSE EmptyObject
  IN  [sent |-> TRUE, session |-> session,
       hasContexts |-> own.hasContexts, contexts |-> own.contexts,
       hasKb |-> own.hasKb \/ msg.setsQueryParams,
       knowledgeBaseNames |-> IF msg.setsQueryParams THEN msg.knowledgeBaseNames
                              ELSE own.knowledgeBaseNames]

Unsettled(t) == t.status \in {"inflight", "handled", "caught"}

Turn(msg, status, error, nCalls, request) ==
  [msg |-> msg, status |-> status, error |-> error, nCalls |-> nCalls, request |-> request,
   response |-> <<>>]

\* the custom contexts set since the stored collection was last replaced,
\* the latest entry of each key only, in the order they were set
RECURSIVE Remember(_, _)
Remember(known, entries) ==
  IF entries = <<>> THEN known
  ELSE Remember(Append(SelectSeq(known, LAMBDA e : e.key # Head(entries).key), Head(entries)),
                Tail(entries))

\* the number of detectIntent calls one UserSays call makes
DetectIntentCallsMutant == 1 + 1
DetectIntentCalls == 1

\* UserSays(msg) up to the detectIntent call
UserSays(msg) ==
  /\ Len(turns) < bound.turns
  /\ LET custom == ExtractCustomContexts(msg, conversationId)
         canMerge == queryParams.state = "object" /\ queryParams.hasContexts
         overlaps == hist.overlapped \/ \E i \in 1..Len(turns) : Unsettled(turns[i])
     IN  IF sessionClient \in {Undefined, "null"}
         THEN \* Promise.reject(new Error('not built'))
              /\ turns' = Append(turns, Turn(msg, "rejected", "not built", 0, NoRequest))
              /\ hist' = [hist EXCEPT !.overlapped = overlaps]
              /\ UNCHANGED queryParams
         ELSE IF custom # <<>> /\ ~canMerge
         THEN \* this.queryParams.contexts is not an array: findIndex throws
              /\ turns' = Append(turns, Turn(msg, "threw", "TypeError", 0, NoRequest))
              /\ hist' = [hist EXCEPT !.overlapped = overlaps]
              /\ UNCHANGED queryParams
         ELSE /\ queryParams' = IF custom = <<>> THEN queryParams
                                ELSE [queryParams EXCEPT
                                        !.contexts = MergeContexts(queryParams.contexts, custom)]
              /\ turns' = Append(turns, Turn(msg, "inflight", "", DetectIntentCalls,
                                             Request(queryParams', msg, sessionPath)))
              /\ hist' = [hist EXCEPT !.overlapped = overlaps,
                                      !.sinceReset = Remember(@, msg.contexts)]
  /\ UNCHANGED <<caps, validateVars, entityVars, sessionClient, sessionPath, conversationId,
                 kbNames, startsPending, timers, delivered, bound>>

\* ------------------------------------------------ the detectIntent response
\* A fulfillment message: its platform, which member of the message oneof is
\* set (variant), and whether the member lacks the inner array the handler
\* indexes or maps (text.text, simpleResponses.simpleResponses,
\* quickReplies.quickReplies, listSelect.items, carouselSelect.items).
Fulfillment(platform, variant, malformed) ==
  [platform |-> platform, variant |-> variant, malformed |-> malformed]

\* f.platform === 'PLATFORM_UNSPECIFIED' || !f.platform
DefaultPlatform(f) == f.platform = "PLATFORM_UNSPECIFIED" \/ Falsy(f.platform)

\* the platform filter, with the default platform as fallback
FilterFulfillmentMessages(c, fms) ==
  LET Wanted(f) == \/ ~Falsy(c.outputPlatform) /\ f.platform = c.outputPlatform
                   \/ Falsy(c.outputPlatform) /\ DefaultPlatform(f)
      first == SelectSeq(fms, Wanted)
  IN  IF Len(first) = 0 /\ ~Falsy(c.outputPlatform) THEN SelectSeq(fms, DefaultPlatform) ELSE first

\* the if / else-if chain: the fields of botMsg each variant assigns
AssignedFieldsMutant(variant) ==
  CASE variant \in {"text", "simpleResponses"} -> {"messageText"}
    [] variant = "image" -> {"media"}
    [] variant \in {"quickReplies", "linkOutSuggestion"} -> {"buttons"}
    [] variant \in {"card", "basicCard", "listSelect"} -> {"messageText", "cards"}
    [] variant = "carouselSelect" -> {"cards"}
    [] OTHER -> {}
AssignedFields(variant) ==
  CASE variant \in {"text", "simpleResponses"} -> {"messageText"}
    [] variant = "image" -> {"media"}
    [] variant \in {"quickReplies", "suggestions", "linkOutSuggestion"} -> {"buttons"}
    [] variant \in {"card", "basicCard", "listSelect"} -> {"messageText", "cards"}
    [] variant = "carouselSelect" -> {"cards"}
    [] OTHER -> {}

\* acceptedResponse: false only in the final else
Accepted(f) == AssignedFields(f.variant) # {}

\* the variants whose branch reads an element or maps an inner array
Dereferencing == {"text", "simpleResponses", "quickReplies", "listSelect", "carouselSelect"}
Throws(f) == f.malformed /\ f.variant \in Dereferencing

BotMsg(fields, from) == [sender |-> "bot", fields |-> fields, nlp |-> TRUE, from |-> from]
NoFulfillment == Fulfillment("", "none", FALSE)
\* { sender: 'bot', sourceData: response.queryResult, nlp }
NlpOnly == BotMsg({}, NoFulfillment)

\* fulfillmentMessages.forEach from message i on: the bot messages handed
\* to setTimeout before the loop ended or a branch threw
RECURSIVE ForEachFulfillment(_, _)
ForEachFulfillment(fms, i) ==
  IF i > Len(fms) THEN [msgs |-> <<>>, threw |-> FALSE]
  ELSE IF Throws(fms[i]) THEN [msgs |-> <<>>, threw |-> TRUE]
  ELSE LET rest == ForEachFulfillment(fms, i + 1)
       IN  [msgs |-> (IF Accepted(fms[i])
                      THEN <<BotMsg(AssignedFields(fms[i].variant), fms[i])>>
                      ELSE <<>>) \o rest.msgs,
            threw |-> rest.threw]

\* the body of the then callback after the contexts were reset
Normalize(c, fms) ==
  LET each == ForEachFulfillment(FilterFulfillmentMessages(c, fms), 1)
  IN  IF ~each.threw /\ c.forceIntentResolution /\ each.msgs = <<>>
      THEN [msgs |-> <<NlpOnly>>, threw |-> FALSE]
      ELSE each

ErrorPrefix == "Cannot send message to dialogflow container: "
ServiceError == "14 UNAVAILABLE"
NullContextsError == "Cannot set property 'contexts' of null"
NormalizeError == "Cannot read property '0' of undefined"

Armed(t, msgs) == [i \in 1..Len(msgs) |-> [turn |-> t, msg |-> msgs[i]]]

\* how the then callback hands a bot message over: through setTimeout(.., 0)
ScheduleMutant(t, msgs) == [timers |-> timers, delivered |-> delivered \o Armed(t, msgs)]
Schedule(t, msgs) == [timers |-> timers \o Armed(t, msgs), delivered |-> delivered]

\* this.queryParams.contexts = [] in the then callback
ResetContextsMutant(qp) == qp
ResetContexts(qp) == [qp EXCEPT !.hasContexts = TRUE, !.contexts = <<>>]

\* detectIntent resolves for turn t with the fulfillment messages fms: the
\* then callback runs to its end or throws, and the catch callback rethrows
DetectIntentResolves(t, fms) ==
  /\ turns[t].status = "inflight"
  /\ IF queryParams.state # "object"
     THEN /\ turns' = [turns EXCEPT ![t].status = "caught",
                                    ![t].error = ErrorPrefix \o NullContextsError,
                                    ![t].response = fms]
          /\ UNCHANGED <<queryParams, timers, delivered, hist>>
     ELSE LET norm == Normalize(caps, fms)
          IN  /\ queryParams' = ResetContexts(queryParams)
              /\ timers' = Schedule(t, norm.msgs).timers
              /\ delivered' = Schedule(t, norm.msgs).delivered
              /\ turns' = [turns EXCEPT
                             ![t].status = IF norm.threw THEN "caught" ELSE "handled",
                             ![t].error = IF norm.threw THEN ErrorPrefix \o NormalizeError ELSE "",
                             ![t].response = fms]
              /\ hist' = [hist EXCEPT !.successSinceStart = TRUE, !.seeded = FALSE,
                                      !.sinceReset = <<>>]
  /\ UNCHANGED <<caps, validateVars, entityVars, sessionClient, sessionPath, conversationId,
                 kbNames, startsPending, bound>>

\* detectIntent rejects for turn t: the then callback is skipped, the catch
\* callback rethrows with the prefix
DetectIntentRejects(t) ==
  /\ turns[t].status = "inflight"
  /\ turns' = [turns EXCEPT ![t].status = "caught", ![t].error = ErrorPrefix \o ServiceError]
  /\ UNCHANGED <<caps, validateVars, entityVars, sessionVars, timers, delivered, hist, bound>>

\* the promise UserSays returned settles (a microtask after the callbacks)
PromiseSettles(t) ==
  /\ turns[t].status \in {"handled", "caught"}
  /\ turns' = [turns EXCEPT ![t].status = IF @ = "handled" THEN "fulfilled" ELSE "rejected"]
  /\ UNCHANGED <<caps, validateVars, entityVars, sessionVars, timers, delivered, hist, bound>>

\* the event loop runs the oldest timer once no microtask is left:
\* this.queueBotSays(botMsg)
TimerFires ==
  /\ timers # <<>>
  /\ \A i \in 1..Len(turns) : turns[i].status \notin {"handled", "caught"}
  /\ delivered' = Append(delivered, Head(timers))
  /\ timers' = Tail(timers)
  /\ UNCHANGED <<caps, validateVars, entityVars, sessionVars, turns, hist, bound>>

\* ------------------------------------------------------- specifications
TextMessage == Fulfillment("PLATFORM_UNSPECIFIED", "text", FALSE)
PlainMessage == Message(<<>>, FALSE, <<>>)

\* The session lifecycle: capabilities that passed Validate, with the
\* knowledge bases listed by the service or named in the capability.
SessionCaps ==
  {[DefaultCaps EXCEPT !.kb = kb, !.inputContexts = <<ContextCap("", "a", "5")>>] :
     kb \in {KbBool(TRUE), KbArr(<<"kb1">>)}}
SessionMessages == {PlainMessage, Message(<<ContextEntry("a", FALSE, "1", FALSE)>>, FALSE, <<>>)}
SessionResponses == {<<>>}

Init ==
  /\ caps \in SessionCaps
  /\ Constructed
  /\ bound = Bound(MaxTurns, MaxStarts)

Next ==
  \/ Start
  \/ StartResumes
  \/ StartListingFails
  \/ Stop
  \/ \E msg \in SessionMessages : UserSays(msg)
  \/ \E t \in 1..Len(turns), fms \in SessionResponses : DetectIntentResolves(t, fms)
  \/ \E t \in 1..Len(turns) : DetectIntentRejects(t)
  \/ \E t \in 1..Len(turns) : PromiseSettles(t)
  \/ TimerFires

Spec == Init /\ [][Next]_vars

\* The context merge: initial contexts with distinct names or with the same
\* name twice, messages with up to two custom contexts of distinct keys.
ContextCaps ==
  {[DefaultCaps EXCEPT !.inputContexts = cs, !.forceIntentResolution = FALSE] :
     cs \in {<<ContextCap("", "a", "5"), ContextCap("_1", "b", "3")>>,
             <<ContextCap("", "a", "5"), ContextCap("_1", "a", "3")>>}}
ContextLists ==
  {<<ContextEntry("a", FALSE, "1", FALSE)>>,
   <<ContextEntry("c", FALSE, "x", FALSE), ContextEntry("b", TRUE, "2", TRUE)>>}
ContextMessages == {Message(cs, FALSE, <<>>) : cs \in ContextLists}

InitContexts ==
  /\ caps \in ContextCaps
  /\ Constructed
  /\ bound = Bound(MaxContextTurns, MaxContextStarts)

NextContexts ==
  \/ Start
  \/ \E msg \in ContextMessages : UserSays(msg)
  \/ \E t \in 1..Len(turns) : DetectIntentResolves(t, <<>>)
  \/ \E t \in 1..Len(turns) : DetectIntentRejects(t)
  \/ \E t \in 1..Len(turns) : PromiseSettles(t)

SpecContexts == InitContexts /\ [][NextContexts]_vars

\* The response handling: every variant alone, and lists of a few of them.
TurnCaps ==
  {[DefaultCaps EXCEPT !.outputPlatform = "SLACK"],
   [DefaultCaps EXCEPT !.forceIntentResolution = FALSE]}
Variants ==
  {"text", "simpleResponses", "image", "quickReplies", "card", "basicCard", "listSelect",
   "carouselSelect", "suggestions", "linkOutSuggestion", "payload"}
Fulfillments ==
  {Fulfillment("PLATFORM_UNSPECIFIED", v, FALSE) : v \in Variants}
  \cup {Fulfillment("PLATFORM_UNSPECIFIED", v, TRUE) : v \in Dereferencing}
  \cup {Fulfillment(p, "text", FALSE) : p \in {"SLACK", Undefined}}
ListedFulfillments ==
  {TextMessage, Fulfillment("SLACK", "card", FALSE),
   Fulfillment("PLATFORM_UNSPECIFIED", "listSelect", TRUE)}
TurnResponses(maxLen) == {<<f>> : f \in Fulfillments} \cup SeqsUpTo(ListedFulfillments, maxLen)

InitTurn ==
  /\ caps \in TurnCaps
  /\ Constructed
  /\ bound = Bound(MaxResponseTurns, MaxContextStarts)

NextTurn ==
  \/ Start
  \/ UserSays(PlainMessage)
  \/ \E t \in 1..Len(turns), fms \in TurnResponses(MaxFulfillment) : DetectIntentResolves(t, fms)
  \/ \E t \in 1..Len(turns) : DetectIntentRejects(t)
  \/ \E t \in 1..Len(turns) : PromiseSettles(t)
  \/ TimerFires

SpecTurn == InitTurn /\ [][NextTurn]_vars

\* ------------------------------------------------------------- the claims
Range(seq) == {seq[i] : i \in 1..Len(seq)}
Names(contexts) == {contexts[i].name : i \in 1..Len(contexts)}
DistinctNames(contexts) ==
  \A i, j \in 1..Len(contexts) : contexts[i].name = contexts[j].name => i = j

\* this step is a UserSays call; the call sent a request
NewTurn == Len(turns') = Len(turns) + 1
NewTurnSent == NewTurn /\ Last(turns').request.sent

\* the context a message entry stands for
EntryContext(conv, e) ==
  Context(ContextPath(conv, e.key), ParseInt(e.lifespan), e.isObject /\ e.hasParameters)
EntryContexts(conv, entries) == [i \in 1..Len(entries) |-> EntryContext(conv, entries[i])]

\* C2: merging a message's SET_DIALOGFLOW_CONTEXT entries into a stored
\* collection with pairwise distinct names leaves exactly one entry per name;
\* an entry whose name the message sets becomes the message's context at the
\* position the old entry had; the other entries are unchanged and keep
\* their order; contexts with new names follow at the end in key order.
C2_MergeReplacesOrAppends ==
  [][(NewTurnSent /\ queryParams.state = "object" /\ queryParams.hasContexts
        /\ DistinctNames(queryParams.contexts)) =>
       LET old == queryParams.contexts
           new == queryParams'.contexts
           own == EntryContexts(conversationId, Last(turns').msg.contexts)
           fresh == SelectSeq(own, LAMBDA c : c.name \notin Names(old))
       IN  /\ DistinctNames(new)
           /\ Len(new) = Len(old) + Len(fresh)
           /\ \A i \in 1..Len(old) :
                IF old[i].name \in Names(own)
                THEN \E j \in 1..Len(own) : own[j].name = old[i].name /\ new[i] = own[j]
                ELSE new[i] = old[i]
           /\ \A k \in 1..Len(fresh) : new[Len(old) + k] = fresh[k]]_vars

\* a request went out whose message replaced the stored b and appended c
C2_Witness ==
  \E t \in 1..Len(turns) :
    /\ turns[t].request.sent
    /\ Len(turns[t].msg.contexts) = 2
    /\ Len(turns[t].request.contexts) = 3
    /\ turns[t].request.contexts[1].lifespanCount = "5"
    /\ turns[t].request.contexts[2] = Context(ContextPath(conversationId, "b"), "2", TRUE)
    /\ turns[t].request.contexts[3].name = ContextPath(conversationId, "c")

\* C3: once Start has completed with a non-empty list of knowledge base
\* names, the stored query parameters hold that list as knowledgeBaseNames,
\* and every request sent carries knowledgeBaseNames.
C3_KnowledgeBaseScopeAttached ==
  (hist.live /\ startsPending = 0 /\ kbNames.defined /\ Len(kbNames.names) > 0) =>
    /\ queryParams.hasKb
    /\ queryParams.knowledgeBaseNames = kbNames.names
    /\ \A t \in 1..Len(turns) : turns[t].request.sent => turns[t].request.hasKb

\* requests in flight: the detectIntent calls of the turns not yet answered
RECURSIVE InFlightFrom(_)
InFlightFrom(t) ==
  IF t > Len(turns) THEN 0
  ELSE (IF turns[t].status = "inflight" THEN turns[t].nCalls ELSE 0) + InFlightFrom(t + 1)
RequestsInFlight == InFlightFrom(1)

Answered(t) == t <= Len(turns) /\ turns[t].status = "inflight" /\ turns'[t].status # "inflight"

C10_RejectedOutsideSession ==
  [][(NewTurn /\ (~hist.startCompleted \/ hist.stopped)) =>
       /\ Last(turns').status = "rejected" /\ Last(turns').error = "not built"
       /\ Last(turns').nCalls = 0 /\ ~Last(turns').request.sent
       /\ UNCHANGED <<sessionVars, timers, delivered>>]_vars

\* the queueBotSays calls of turn t, made or still on a timer, in order
CallsOf(t) == SelectSeq(delivered \o timers, LAMBDA d : d.turn = t)
DeliveredOf(t) == SelectSeq(delivered, LAMBDA d : d.turn = t)

\* C4 as stated: every queueBotSays call of a turn has happened by the time
\* the promise of the turn is fulfilled.
C4_DeliveredBeforeFulfilled ==
  \A i \in 1..Len(timers) : turns[timers[i].turn].status # "fulfilled"

\* C4 as amended: the bot messages of a turn are handed to zero-delay
\* timers, so every queueBotSays call of a turn happens after the promise of
\* the turn has settled, in the order the messages were produced.
C4_DeliveredAfterSettled ==
  /\ \A i \in 1..Len(delivered) : turns[delivered[i].turn].status \in {"fulfilled", "rejected"}
  /\ \A t \in 1..Len(turns) :
       turns[t].status = "fulfilled" =>
         CallsOf(t) = Armed(t, Normalize(caps, turns[t].response).msgs)

\* both messages of a fulfilled turn were delivered
C4_Witness ==
  \E t \in 1..Len(turns) :
    /\ turns[t].status = "fulfilled"
    /\ Len(DeliveredOf(t)) = 2
    /\ timers = <<>>

\* the errors detectIntent itself fails with
ServiceFailure(t) == turns[t].nCalls >= 1 /\ turns[t].status \in {"caught", "rejected"}

\* C6: a turn whose detectIntent call or response handling failed rejects
\* with the prefixed message, called detectIntent once, and has no bot
\* message delivered or waiting to be delivered.
C6_ErrorRethrownNothingDelivered ==
  \A t \in 1..Len(turns) :
    ServiceFailure(t) =>
      /\ turns[t].error \in {ErrorPrefix \o m : m \in {ServiceError, NullContextsError, NormalizeError}}
      /\ turns[t].nCalls = 1
      /\ CallsOf(t) = <<>>

\* the claim's reading of the platform filter and of the variants
PlatformFiltered(c, fms) ==
  LET unset == c.outputPlatform \in {Undefined, ""}
      IsDefault(f) == f.platform \in {"PLATFORM_UNSPECIFIED", Undefined, ""}
      chosen == SelectSeq(fms, LAMBDA f : IF unset THEN IsDefault(f) ELSE f.platform = c.outputPlatform)
  IN  IF chosen = <<>> /\ ~unset THEN SelectSeq(fms, IsDefault) ELSE chosen
FieldOfVariant(variant) ==
  CASE variant \in {"text", "simpleResponses"} -> "messageText"
    [] variant \in {"quickReplies", "suggestions", "linkOutSuggestion"} -> "buttons"
    [] variant \in {"card", "basicCard", "listSelect", "carouselSelect"} -> "cards"
    [] variant = "image" -> "media"
    [] OTHER -> "none"
Recognized(fms) == SelectSeq(fms, LAMBDA f : FieldOfVariant(f.variant) # "none")

\* C8: the queueBotSays calls of a successful turn are one message for each
\* platform-filtered fulfillment message of a recognized variant, in order,
\* with the field of the variant set; with none accepted, one message with
\* the nlp data only when intent resolution is forced, else no message.
C8_MessagesPerVariant ==
  \A t \in 1..Len(turns) :
    turns[t].status \in {"handled", "fulfilled"} =>
      LET calls == CallsOf(t)
          kept == Recognized(PlatformFiltered(caps, turns[t].response))
      IN  IF kept = <<>>
          THEN IF caps.forceIntentResolution = TRUE
               THEN /\ Len(calls) = 1
                    /\ calls[1].msg.fields = {} /\ calls[1].msg.nlp
                    /\ calls[1].msg.sender = "bot"
               ELSE calls = <<>>
          ELSE /\ Len(calls) = Len(kept)
               /\ \A i \in 1..Len(kept) :
                    /\ calls[i].msg.from = kept[i]
                    /\ FieldOfVariant(kept[i].variant) \in calls[i].msg.fields
                    /\ calls[i].msg.sender = "bot"

\* a fulfilled turn under an output platform: of a default text and a card
\* of the platform, the card alone was delivered
C8_Witness ==
  \E t \in 1..Len(turns) :
    /\ turns[t].status = "fulfilled"
    /\ ~Falsy(caps.outputPlatform)
    /\ Len(turns[t].response) = 2
    /\ Len(DeliveredOf(t)) = 1
    /\ "cards" \in DeliveredOf(t)[1].msg.fields
    /\ timers = <<>>

====
